---- MODULE Spec2Model ----
(***************************************************************************)
(* Model of fast_boot_core/schemas.py: the temporal coercion validator of  *)
(* Schema, the sort-criteria grammar of Sort and the page descriptor       *)
(* Pageable.                                                               *)
(*                                                                         *)
(* Text is modelled as a sequence of one-character strings so that the     *)
(* parsers and renderers can be computed character by character.           *)
(* f-string rendering of a Sort.Direction member is modelled as the        *)
(* member's value ("asc"/"desc"), which is what the code itself relies on  *)
(* when it builds the default token f"id({Sort.Direction.DESC})" that must *)
(* match Sort.query_regex().                                               *)
(***************************************************************************)
EXTENDS Integers, Sequences, FiniteSets, TLC

VARIABLES
    pc,             \* position of the modelled call sequence
    v,              \* raw field value handed to the validator
    field_type,     \* declared type of the field: "datetime", "date", "other"
    local_offset,   \* UTC offset (seconds) of the process's local time zone
    ret,            \* outcome of datetime_or_date_to_timestamp
    criterion,      \* a Sort instance (input of to_str)
    sort_criteria,  \* the text handed to Sort.from_str
    parsed,         \* outcome of Sort.from_str
    page,           \* page argument of a construction entry point
    size,           \* size / limit argument of a construction entry point
    sort,           \* sort argument: list of Sort (constructor) or of tokens
    sorts,          \* default criteria given to with_default_attribute
    sort_query,     \* sort query parameter: list of sort tokens
    given,          \* query parameters present in the request
    pageable,       \* outcome of the construction entry point
    api_query       \* outcome of Pageable.to_api_query

vars == <<pc, v, field_type, local_offset, ret, criterion, sort_criteria,
          parsed, page, size, sort, sorts, sort_query, given, pageable,
          api_query>>

coerceVars == <<v, field_type, local_offset, ret>>
sortVars == <<criterion, sort_criteria, parsed>>
pageVars == <<page, size, sort, sorts, sort_query, given, pageable, api_query>>

----------------------------------------------------------------------------
(* Bounds *)

MaxPieces == 5
MaxOrderPieces == 2
MaxPage == 2
MaxSort == 2
MaxFieldPieces == 1

----------------------------------------------------------------------------
(* Text helpers *)

Pieces ==
    { <<"a">>, <<"(">>, <<")">>, <<"a", "s", "c">>, <<"d", "e", "s", "c">> }

RECURSIVE TextsOf(_)
TextsOf(n) ==
    IF n = 0 THEN { <<>> }
    ELSE LET prev == TextsOf(n - 1)
         IN  prev \cup { t \o p : t \in prev, p \in Pieces }

Contains(s, c) == \E i \in 1..Len(s) : s[i] = c

\* str.index(c): 1-based position of the first occurrence (caller checks Contains)
Index(s, c) == CHOOSE i \in 1..Len(s) : s[i] = c /\ \A j \in 1..(i - 1) : s[j] # c

EndsWith(s, suf) ==
    /\ Len(s) >= Len(suf)
    /\ SubSeq(s, Len(s) - Len(suf) + 1, Len(s)) = suf

----------------------------------------------------------------------------
(* Sort *)

Direction == { "asc", "desc" }

\* the string value of a Direction member
DirectionValue(d) ==
    IF d = "asc" THEN <<"a", "s", "c">> ELSE <<"d", "e", "s", "c">>

NoSort == [order_by |-> <<>>, direction |-> "none"]

NotCalled == [status |-> "pending", exc |-> "", sort |-> NoSort]
SortOk(s) == [status |-> "ok", exc |-> "", sort |-> s]
SortRaise(e) == [status |-> "raise", exc |-> e, sort |-> NoSort]

\* cls(order_by=..., direction=...): pydantic validates direction against the enum
SortNew(order_by, direction) ==
    IF \E d \in Direction : DirectionValue(d) = direction
    THEN SortOk([order_by |-> order_by,
                 direction |-> CHOOSE d \in Direction : DirectionValue(d) = direction])
    ELSE SortRaise("ValidationError")

\* from_str with the direction slice running one character too far
from_str_slice_to_close(text) ==
    IF ~Contains(text, "(") THEN SortRaise("ValueError")
    ELSE IF ~Contains(text, ")") THEN SortRaise("ValueError")
    ELSE LET open == Index(text, "(")
             close == Index(text, ")")
         IN  SortNew(SubSeq(text, 1, open - 1), SubSeq(text, open + 1, close))

from_str(text) ==
    IF ~Contains(text, "(") THEN SortRaise("ValueError")
    ELSE IF ~Contains(text, ")") THEN SortRaise("ValueError")
    ELSE LET open == Index(text, "(")
             close == Index(text, ")")
         IN  SortNew(SubSeq(text, 1, open - 1), SubSeq(text, open + 1, close - 1))

to_str(s) == s.order_by \o <<"(">> \o DirectionValue(s.direction) \o <<")">>

\* re.match(Sort.query_regex(), text): one or more characters, then "(asc)" or "(desc)"
query_regex(text) ==
    \E d \in Direction :
        LET tail == <<"(">> \o DirectionValue(d) \o <<")">>
        IN  EndsWith(text, tail) /\ Len(text) > Len(tail)

----------------------------------------------------------------------------
(* Pageable *)

DigitChars == <<"0", "1", "2", "3", "4", "5", "6", "7", "8", "9">>

\* f"{n}" for an int
RECURSIVE IntToStr(_)
IntToStr(n) ==
    IF n < 0 THEN <<"-">> \o IntToStr(0 - n)
    ELSE IF n < 10 THEN <<DigitChars[n + 1]>>
    ELSE IntToStr(n \div 10) \o <<DigitChars[(n % 10) + 1]>>

NoPageable == [status |-> "pending", exc |-> "", sort |-> <<>>, size |-> 0, page |-> 0]
PageRaise(e) == [status |-> "raise", exc |-> e, sort |-> <<>>, size |-> 0, page |-> 0]

\* Pageable.__init__: the defaults are set by super().__init__(), then the
\* three attributes are assigned; assignment is not validated
PageableNew(sz, pg, st) ==
    [status |-> "ok", exc |-> "", sort |-> st, size |-> sz, page |-> pg]

\* list(map(Sort.from_str, tokens)): the first failing token raises
MapFromStr(tokens) == [i \in 1..Len(tokens) |-> from_str(tokens[i])]

FromTokens(sz, pg, tokens) ==
    LET rs == MapFromStr(tokens)
    IN  IF \E i \in 1..Len(rs) : rs[i].status = "raise"
        THEN PageRaise(rs[CHOOSE i \in 1..Len(rs) :
                              /\ rs[i].status = "raise"
                              /\ \A j \in 1..(i - 1) : rs[j].status = "ok"].exc)
        ELSE PageableNew(sz, pg, [i \in 1..Len(rs) |-> rs[i].sort])

DefaultPage == 1
DefaultSize == 100
DefaultLimit == 20
DefaultSort == << <<"i", "d">> \o <<"(">> \o DirectionValue("desc") \o <<")">> >>

\* Query(..., ge=1): a supplied number below 1 is refused at the boundary
QueryGe1(name, n) == (name \in given) => n >= 1
\* Query(..., regex=Sort.query_regex()): every supplied token must match
QueryRegex == ("sort" \in given) => \A i \in 1..Len(sort_query) : query_regex(sort_query[i])

Arg(name, supplied, default) == IF name \in given THEN supplied ELSE default

KeySort == <<"s", "o", "r", "t">>
KeySize == <<"s", "i", "z", "e">>
KeyPage == <<"p", "a", "g", "e">>

\* self.dict().items(): the fields in declaration order
DictItems(p) ==
    << [key |-> KeySort, is_list |-> TRUE, list |-> p.sort, num |-> 0],
       [key |-> KeySize, is_list |-> FALSE, list |-> <<>>, num |-> p.size],
       [key |-> KeyPage, is_list |-> FALSE, list |-> <<>>, num |-> p.page] >>

RECURSIVE JoinSort(_, _)
JoinSort(key, list) ==
    IF list = <<>> THEN <<>>
    ELSE key \o <<"=">> \o Head(list).order_by \o <<"(">>
             \o DirectionValue(Head(list).direction) \o <<")">> \o <<"&">>
             \o JoinSort(key, Tail(list))

RECURSIVE Accumulate(_)
Accumulate(items) ==
    IF items = <<>> THEN <<>>
    ELSE LET it == Head(items)
         IN  (IF it.is_list THEN JoinSort(it.key, it.list)
              ELSE it.key \o <<"=">> \o IntToStr(it.num) \o <<"&">>)
             \o Accumulate(Tail(items))

\* to_api_query without the final string[:-1]
to_api_query_untrimmed(p) == Accumulate(DictItems(p))

to_api_query(p) ==
    LET string == Accumulate(DictItems(p))
    IN  SubSeq(string, 1, Len(string) - 1)

----------------------------------------------------------------------------
(* Schema.datetime_or_date_to_timestamp *)

\* A Python value.  type is the value's exact type; n/frac carry a number
\* (n + frac/10; cls distinguishes nan, the infinities and magnitudes beyond
\* year 9999), the wall-clock seconds of a datetime counted from
\* 1970-01-01T00:00:00, or the day number of a date; aware/utcoff are a
\* datetime's tzinfo; s is the text of a str or bytes.
Val(type, n, frac, cls, s, aware, utcoff) ==
    [type |-> type, n |-> n, frac |-> frac, cls |-> cls, s |-> s,
     aware |-> aware, utcoff |-> utcoff]

None == Val("NoneType", 0, 0, "", <<>>, FALSE, 0)
IntV(n) == Val("int", n, 0, "finite", <<>>, FALSE, 0)
FloatV(n, frac) == Val("float", n, frac, "finite", <<>>, FALSE, 0)
FloatSpecial(cls) == Val("float", 0, 0, cls, <<>>, FALSE, 0)
BoolV(b) == Val("bool", IF b THEN 1 ELSE 0, 0, "finite", <<>>, FALSE, 0)
StrV(s) == Val("str", 0, 0, "", s, FALSE, 0)
BytesV(s) == Val("bytes", 0, 0, "", s, FALSE, 0)
ListV == Val("list", 0, 0, "", <<>>, FALSE, 0)
DictV == Val("dict", 0, 0, "", <<>>, FALSE, 0)
DatetimeV(wall, frac, aware, utcoff) == Val("datetime", wall, frac, "", <<>>, aware, utcoff)
DateV(day) == Val("date", day, 0, "", <<>>, FALSE, 0)

IsDigit(c) == \E i \in 1..10 : DigitChars[i] = c
DigitVal(c) == (CHOOSE i \in 1..10 : DigitChars[i] = c) - 1
AllDigits(s) == \A i \in 1..Len(s) : IsDigit(s[i])

RECURSIVE ToInt(_)
ToInt(s) == IF s = <<>> THEN 0 ELSE ToInt(SubSeq(s, 1, Len(s) - 1)) * 10 + DigitVal(s[Len(s)])

RECURSIVE StripZeros(_)
StripZeros(s) == IF Len(s) > 1 /\ Head(s) = "0" THEN StripZeros(Tail(s)) ELSE s

Failed(e) == [ok |-> FALSE, exc |-> e, val |-> None]
Done(x) == [ok |-> TRUE, exc |-> "", val |-> x]

\* float(text) for a str or bytes: optional sign, digits, optional "." and
\* fraction; "nan" and "inf".  The first fractional digit is kept (tenths are
\* the resolution of the model); 13 or more integer digits are beyond every
\* representable timestamp and are kept as cls "huge".
ParseFloat(text) ==
    LET signed == Len(text) > 0 /\ text[1] \in {"-", "+"}
        neg == signed /\ text[1] = "-"
        body == IF signed THEN Tail(text) ELSE text
        dot == IF Contains(body, ".") THEN Index(body, ".") ELSE Len(body) + 1
        ip == SubSeq(body, 1, dot - 1)
        fp == SubSeq(body, dot + 1, Len(body))
    IN  IF body = <<"n", "a", "n">> THEN Done(FloatSpecial("nan"))
        ELSE IF body = <<"i", "n", "f">> THEN Done(FloatSpecial(IF neg THEN "-inf" ELSE "inf"))
        ELSE IF ~(AllDigits(ip) /\ AllDigits(fp) /\ Len(ip) + Len(fp) > 0)
        THEN Failed("ValueError")
        ELSE IF Len(StripZeros(ip)) >= 13
        THEN Done(FloatSpecial(IF neg THEN "-huge" ELSE "huge"))
        ELSE LET whole == ToInt(ip)
                 tenth == IF fp = <<>> THEN 0 ELSE DigitVal(fp[1])
             IN  IF ~neg THEN Done(FloatV(whole, tenth))
                 ELSE IF tenth = 0 THEN Done(FloatV(0 - whole, 0))
                 ELSE Done(FloatV(0 - whole - 1, 10 - tenth))

\* float(v)
Float(x) ==
    CASE x.type \in {"int", "bool"} -> Done(FloatV(x.n, 0))
      [] x.type = "float" -> Done(x)
      [] x.type \in {"str", "bytes"} -> ParseFloat(x.s)
      [] OTHER -> Failed("TypeError")

\* datetime.fromtimestamp(x): local wall-clock time, offset-naive
FromTimestamp(x) ==
    IF x.cls = "nan" THEN Failed("ValueError")
    ELSE IF x.cls # "finite" THEN Failed("OverflowError")
    ELSE Done(DatetimeV(x.n + local_offset, x.frac, FALSE, 0))

\* v.timestamp()
Timestamp(d) == FloatV(d.n - (IF d.aware THEN d.utcoff ELSE local_offset), d.frac)

\* v.replace(tzinfo=None)
ReplaceTzNone(d) == DatetimeV(d.n, d.frac, FALSE, 0)

IsLeap(y) == (y % 4 = 0 /\ y % 100 # 0) \/ y % 400 = 0

DaysInMonth(y, m) ==
    IF m = 2 THEN (IF IsLeap(y) THEN 29 ELSE 28)
    ELSE IF m \in {4, 6, 9, 11} THEN 30 ELSE 31

\* days from 1970-01-01 to the civil date y-m-d
DaysFromCivil(y, m, d) ==
    LET yy == IF m <= 2 THEN y - 1 ELSE y
        era == yy \div 400
        yoe == yy - era * 400
        mp == IF m > 2 THEN m - 3 ELSE m + 9
        doy == (153 * mp + 2) \div 5 + d - 1
        doe == yoe * 365 + yoe \div 4 - yoe \div 100 + doy
    IN  era * 146097 + doe - 719468

ValidDate(y, m, d) == y >= 1 /\ m \in 1..12 /\ d >= 1 /\ d <= DaysInMonth(y, m)

Digits(s, from, count) ==
    /\ Len(s) >= from + count - 1
    /\ AllDigits(SubSeq(s, from, from + count - 1))

Num(s, from, count) == ToInt(SubSeq(s, from, from + count - 1))

\* "HH", "HH:MM" or "HH:MM:SS" -> seconds of the day, -1 when malformed
ParseClock(t) ==
    LET okH == Len(t) \in {2, 5, 8} /\ Digits(t, 1, 2)
        okM == Len(t) < 5 \/ (t[3] = ":" /\ Digits(t, 4, 2))
        okS == Len(t) < 8 \/ (t[6] = ":" /\ Digits(t, 7, 2))
    IN  IF ~okH THEN 0 - 1
        ELSE IF ~(okM /\ okS) THEN 0 - 1
        ELSE LET h == Num(t, 1, 2)
                 m == IF Len(t) >= 5 THEN Num(t, 4, 2) ELSE 0
                 sec == IF Len(t) >= 8 THEN Num(t, 7, 2) ELSE 0
             IN  IF h <= 23 /\ m <= 59 /\ sec <= 59 THEN h * 3600 + m * 60 + sec
                 ELSE 0 - 1

\* datetime.fromisoformat(text): YYYY-MM-DD[*HH[:MM[:SS]][+HH:MM]]
FromIsoFormat(text) ==
    LET okDate == /\ Len(text) >= 10
                  /\ Digits(text, 1, 4) /\ text[5] = "-"
                  /\ Digits(text, 6, 2) /\ text[8] = "-"
                  /\ Digits(text, 9, 2)
    IN  IF ~okDate THEN Failed("ValueError")
        ELSE LET y == Num(text, 1, 4)
                 m == Num(text, 6, 2)
                 d == Num(text, 9, 2)
                 rest == SubSeq(text, 12, Len(text))
                 hasTz == Len(rest) >= 6 /\ rest[Len(rest) - 5] \in {"+", "-"}
                 clock == IF hasTz THEN SubSeq(rest, 1, Len(rest) - 6) ELSE rest
                 tz == IF hasTz THEN SubSeq(rest, Len(rest) - 4, Len(rest)) ELSE <<>>
                 secs == IF Len(text) = 10 THEN 0 ELSE ParseClock(clock)
                 off == IF hasTz THEN ParseClock(tz) ELSE 0
                 sign == IF hasTz /\ rest[Len(rest) - 5] = "-" THEN 0 - 1 ELSE 1
             IN  IF ~ValidDate(y, m, d) \/ Len(text) = 11 \/ secs < 0 \/ off < 0
                    \/ (hasTz /\ Len(tz) # 5)
                 THEN Failed("ValueError")
                 ELSE Done(DatetimeV(DaysFromCivil(y, m, d) * 86400 + secs, 0,
                                     hasTz, sign * off))

\* the "-"-separated parts of a text
RECURSIVE Split(_)
Split(text) ==
    IF ~Contains(text, "-") THEN <<text>>
    ELSE <<SubSeq(text, 1, Index(text, "-") - 1)>>
             \o Split(SubSeq(text, Index(text, "-") + 1, Len(text)))

\* datetime.strptime(text, '%Y-%m-%d')
Strptime(text) ==
    LET parts == Split(text)
    IN  IF ~(/\ Len(parts) = 3
             /\ Len(parts[1]) = 4 /\ AllDigits(parts[1])
             /\ Len(parts[2]) \in {1, 2} /\ AllDigits(parts[2])
             /\ Len(parts[3]) \in {1, 2} /\ AllDigits(parts[3]))
        THEN Failed("ValueError")
        ELSE LET y == ToInt(parts[1])
                 m == ToInt(parts[2])
                 d == ToInt(parts[3])
             IN  IF ~ValidDate(y, m, d) THEN Failed("ValueError")
                 ELSE Done(DatetimeV(DaysFromCivil(y, m, d) * 86400, 0, FALSE, 0))

Pending == [status |-> "pending", exc |-> "", value |-> None, msg_has_v |-> FALSE]
Return(x) == [status |-> "return", exc |-> "", value |-> x, msg_has_v |-> FALSE]
\* an exception that escapes the validator
Raise(e) == [status |-> "raise", exc |-> e, value |-> None, msg_has_v |-> FALSE]
\* raise ValueError(f'{v} is not valid')
RaiseNotValid == [status |-> "raise", exc |-> "ValueError", value |-> None, msg_has_v |-> TRUE]
FallThrough == [status |-> "fallthrough", exc |-> "", value |-> None, msg_has_v |-> FALSE]

\* the timestamp branch taken on the value's type alone
TakesTimestampBranchByType(x, is_numeric) == x.type \in {"int", "float"}

\* the condition of the timestamp branch: type(v) in {int, float} or is_numeric
TakesTimestampBranch(x, is_numeric) == x.type \in {"int", "float"} \/ is_numeric

\* try: return datetime.fromtimestamp(float(v)) except Exception: raise ValueError
TimestampBranch(x) ==
    LET f == Float(x)
        r == IF f.ok THEN FromTimestamp(f.val) ELSE f
    IN  IF r.ok THEN Return(r.val) ELSE RaiseNotValid

\* the body of "if val.type_ is datetime"
DatetimeField(x) ==
    LET f == Float(x)
    IN  IF ~f.ok /\ f.exc # "ValueError" THEN Raise(f.exc)
        ELSE IF x.type = "NoneType" THEN Return(None)
        ELSE IF x.type = "datetime" THEN Return(ReplaceTzNone(x))
        ELSE IF TakesTimestampBranch(x, f.ok) THEN TimestampBranch(x)
        ELSE IF x.type = "str"
        THEN LET p == FromIsoFormat(x.s)
             IN  IF p.ok THEN Return(Timestamp(p.val)) ELSE RaiseNotValid
        ELSE FallThrough

\* the body of "if val.type_ is date"
DateField(x) ==
    LET f == Float(x)
    IN  IF ~f.ok /\ f.exc # "ValueError" THEN Raise(f.exc)
        ELSE IF x.type = "NoneType" THEN Return(None)
        ELSE IF x.type = "date" THEN Return(x)
        ELSE IF TakesTimestampBranch(x, f.ok) THEN TimestampBranch(x)
        ELSE IF x.type = "str"
        THEN LET p == Strptime(x.s)
             IN  IF p.ok THEN Return(Timestamp(p.val)) ELSE RaiseNotValid
        ELSE FallThrough

datetime_or_date_to_timestamp(x, type_) ==
    LET first == IF type_ = "datetime" THEN DatetimeField(x) ELSE FallThrough
        second == IF first.status # "fallthrough" THEN first
                  ELSE IF type_ = "date" THEN DateField(x) ELSE FallThrough
    IN  IF second.status # "fallthrough" THEN second ELSE Return(x)

----------------------------------------------------------------------------
(* Sort: inputs and operations *)

Criteria == [order_by : TextsOf(MaxOrderPieces), direction : Direction]

SortInit ==
    /\ parsed = NotCalled
    /\ \/ pc = "text" /\ sort_criteria \in TextsOf(MaxPieces) /\ criterion = NoSort
       \/ pc = "criterion" /\ criterion \in Criteria /\ sort_criteria = <<>>
    /\ v = None /\ field_type = "" /\ local_offset = 0 /\ ret = Pending
    /\ page = 0 /\ size = 0 /\ sort = <<>> /\ sorts = <<>>
    /\ sort_query = <<>> /\ given = {}
    /\ pageable = NoPageable /\ api_query = <<>>

ToStr ==
    /\ pc = "criterion"
    /\ sort_criteria' = to_str(criterion)
    /\ pc' = "text"
    /\ UNCHANGED <<criterion, parsed>>
    /\ UNCHANGED coerceVars /\ UNCHANGED pageVars

FromStr ==
    /\ pc = "text"
    /\ parsed' = from_str(sort_criteria)
    /\ pc' = "parsed"
    /\ UNCHANGED <<criterion, sort_criteria>>
    /\ UNCHANGED coerceVars /\ UNCHANGED pageVars

SortNext == ToStr \/ FromStr

SpecSort == SortInit /\ [][SortNext]_vars

----------------------------------------------------------------------------
(* Pageable: inputs and operations *)

FieldPieces == { <<"a">> }

RECURSIVE FieldNames(_)
FieldNames(n) ==
    IF n = 0 THEN { <<>> }
    ELSE LET prev == FieldNames(n - 1)
         IN  prev \cup { t \o p : t \in prev, p \in FieldPieces \cup { <<"(">> } }

PageCriteria == [order_by : FieldNames(MaxFieldPieces), direction : Direction]

FormedTokens ==
    { f \o <<"(">> \o DirectionValue(d) \o <<")">> :
          f \in FieldNames(MaxFieldPieces), d \in Direction }
MalformedTokens == { <<>>, <<"a">>, <<"a", "(", "u", "p", ")">> }

ListsOf(S, n) == UNION { [1..k -> S] : k \in 0..n }

PageInit ==
    /\ pageable = NoPageable
    /\ api_query = <<>>
    /\ \/ /\ pc = "init"
          /\ given = {"page", "size", "sort"}
          /\ page \in 0..MaxPage /\ size \in 0..MaxPage
          /\ sort \in ListsOf(PageCriteria, MaxSort)
          /\ sort_query = <<>> /\ sorts = <<>>
       \/ /\ pc \in {"non_sort", "standard", "old_standard", "with_default_attribute"}
          /\ given \in SUBSET {"page", "size", "sort"}
          /\ (pc = "non_sort") => ("sort" \notin given)
          /\ IF "page" \in given THEN page \in 0..MaxPage ELSE page = 0
          /\ IF "size" \in given THEN size \in 0..MaxPage ELSE size = 0
          /\ IF "sort" \in given
             THEN sort_query \in ListsOf(FormedTokens \cup MalformedTokens, MaxSort)
             ELSE sort_query = <<>>
          /\ IF pc = "with_default_attribute" /\ "sort" \notin given
             THEN sorts \in ListsOf(PageCriteria, MaxSort)
             ELSE sorts = <<>>
          /\ sort = <<>>
    /\ v = None /\ field_type = "" /\ local_offset = 0 /\ ret = Pending
    /\ criterion = NoSort /\ sort_criteria = <<>> /\ parsed = NotCalled

Constructed(p) ==
    /\ pageable' = p
    /\ pc' = IF p.status = "ok" THEN "constructed" ELSE "failed"
    /\ UNCHANGED <<page, size, sort, sorts, sort_query, given, api_query>>
    /\ UNCHANGED coerceVars /\ UNCHANGED sortVars

\* Pageable(size, page, sort)
PageableInit ==
    /\ pc = "init"
    /\ Constructed(PageableNew(size, page, sort))

NonSort ==
    /\ pc = "non_sort"
    /\ QueryGe1("page", page) /\ QueryGe1("size", size)
    /\ Constructed(PageableNew(Arg("size", size, DefaultSize),
                               Arg("page", page, DefaultPage), <<>>))

Standard ==
    /\ pc = "standard"
    /\ QueryGe1("page", page) /\ QueryGe1("size", size) /\ QueryRegex
    /\ Constructed(FromTokens(Arg("size", size, DefaultSize),
                              Arg("page", page, DefaultPage),
                              Arg("sort", sort_query, DefaultSort)))

WithDefaultAttribute ==
    /\ pc = "with_default_attribute"
    /\ QueryGe1("page", page) /\ QueryGe1("size", size) /\ QueryRegex
    /\ Constructed(FromTokens(Arg("size", size, DefaultSize),
                              Arg("page", page, DefaultPage),
                              Arg("sort", sort_query,
                                  [i \in 1..Len(sorts) |-> to_str(sorts[i])])))

OldStandard ==
    /\ pc = "old_standard"
    /\ QueryGe1("page", page) /\ QueryGe1("size", size) /\ QueryRegex
    /\ Constructed(FromTokens(Arg("size", size, DefaultLimit),
                              Arg("page", page, DefaultPage),
                              Arg("sort", sort_query, DefaultSort)))

ToApiQuery ==
    /\ pc = "constructed"
    /\ api_query' = to_api_query(pageable)
    /\ pc' = "rendered"
    /\ UNCHANGED <<page, size, sort, sorts, sort_query, given, pageable>>
    /\ UNCHANGED coerceVars /\ UNCHANGED sortVars

PageNext ==
    \/ PageableInit
    \/ NonSort
    \/ Standard
    \/ WithDefaultAttribute
    \/ OldStandard
    \/ ToApiQuery

SpecPage == PageInit /\ [][PageNext]_vars

----------------------------------------------------------------------------
(* Validator: inputs and operation *)

StrInputs ==
    { <<"2", "0", "2", "3", "-", "0", "5", "-", "0", "1", "T", "1", "2", ":", "0", "0", ":", "0", "0">>,
      <<"2", "0", "2", "3", "-", "0", "5", "-", "0", "1">>,
      <<"2", "0", "2", "3", "-", "0", "5", "-", "0", "1", "T", "1", "2", ":", "0", "0", ":", "0", "0", "+", "0", "7", ":", "0", "0">>,
      <<"2", "0", "2", "3", "-", "0", "5", "-", "0", "1", " ", "1", "2", ":", "0", "0">>,
      <<"2", "0", "2", "3", "-", "1", "3", "-", "0", "1">>,
      <<"2", "0", "2", "3", "-", "0", "2", "-", "2", "9">>,
      <<"2", "0", "2", "4", "-", "0", "2", "-", "2", "9">>,
      <<"2", "0", "2", "3", "-", "5", "-", "1">>,
      <<"1", "9", "7", "0", "-", "0", "1", "-", "0", "1", "T", "0", "0", ":", "0", "0", ":", "0", "0">>,
      <<"a", "b", "c">>,
      <<>>,
      <<"1", "2">>,
      <<"1", ".", "5">>,
      <<"-", "1">>,
      <<"-", "1", ".", "5">>,
      <<"0">>,
      <<"1", "7", "0", "0", "0", "0", "0", "0", "0", "0">>,
      <<"n", "a", "n">>,
      <<"i", "n", "f">>,
      <<"1", "0", "0", "0", "0", "0", "0", "0", "0", "0", "0", "0", "0">>,
      <<"1", ".">>,
      <<"T">> }

LocalOffsets == { 0 - 18000, 0, 25200 }

Inputs ==
    { None, ListV, DictV, BoolV(TRUE), BoolV(FALSE),
      IntV(0), IntV(0 - 1), IntV(1700000000), FloatV(1, 5), FloatV(1682942400, 0),
      FloatSpecial("nan"), FloatSpecial("inf"),
      DatetimeV(1682942400, 0, FALSE, 0), DatetimeV(1682942400, 5, TRUE, 25200),
      DatetimeV(0, 0, TRUE, 0), DateV(19478), DateV(0) }
    \cup { StrV(s) : s \in StrInputs }
    \cup { BytesV(s) : s \in { <<"1", "2">>, <<"a", "b", "c">>, <<>> } }

CoerceInit ==
    /\ pc = "validate"
    /\ v \in Inputs
    /\ field_type \in {"datetime", "date", "other"}
    /\ local_offset \in LocalOffsets
    /\ ret = Pending
    /\ criterion = NoSort /\ sort_criteria = <<>> /\ parsed = NotCalled
    /\ page = 0 /\ size = 0 /\ sort = <<>> /\ sorts = <<>>
    /\ sort_query = <<>> /\ given = {}
    /\ pageable = NoPageable /\ api_query = <<>>

Validate ==
    /\ pc = "validate"
    /\ ret' = datetime_or_date_to_timestamp(v, field_type)
    /\ pc' = "validated"
    /\ UNCHANGED <<v, field_type, local_offset>>
    /\ UNCHANGED sortVars /\ UNCHANGED pageVars

CoerceNext == Validate

SpecCoerce == CoerceInit /\ [][CoerceNext]_vars

----------------------------------------------------------------------------
(* Sort: properties *)

NoParens(text) == ~Contains(text, "(") /\ ~Contains(text, ")")

\* C3 (as stated): for every criterion c, from_str(to_str(c)) succeeds and
\* equals c.
C3_RoundTripAny ==
    (pc = "parsed" /\ criterion # NoSort) => parsed = SortOk(criterion)

\* C3 (amended): for every criterion c whose order_by contains neither "("
\* nor ")", from_str(to_str(c)) succeeds and equals c.
C3_RoundTripNoParens ==
    (pc = "parsed" /\ criterion # NoSort /\ NoParens(criterion.order_by))
        => parsed = SortOk(criterion)

C3_Witness ==
    /\ pc = "parsed"
    /\ criterion # NoSort
    /\ NoParens(criterion.order_by)
    /\ Len(criterion.order_by) > 1
    /\ criterion.direction = "desc"
    /\ parsed = SortOk(criterion)

\* first position >= from at which c occurs, 0 when there is none
IndexFrom(s, c, from) ==
    IF \E i \in from..Len(s) : s[i] = c
    THEN CHOOSE i \in from..Len(s) : s[i] = c /\ \A j \in from..(i - 1) : s[j] # c
    ELSE 0

\* the documented parse: first "(", then the first ")" after it
ParseFirstCloseAfterOpen(text) ==
    LET open == IndexFrom(text, "(", 1)
        close == IF open = 0 THEN 0 ELSE IndexFrom(text, ")", open + 1)
    IN  IF open = 0 \/ close = 0 THEN SortRaise("error")
        ELSE LET direction == SubSeq(text, open + 1, close - 1)
             IN  IF \E d \in Direction : DirectionValue(d) = direction
                 THEN SortOk([order_by |-> SubSeq(text, 1, open - 1),
                              direction |-> CHOOSE d \in Direction :
                                                DirectionValue(d) = direction])
                 ELSE SortRaise("error")

\* C5: from_str takes the first "(" and the first ")" after it; order_by is
\* the text before "(", direction the text between; it fails exactly when a
\* delimiter is absent or the direction is not asc/desc.
C5_FirstCloseAfterOpen ==
    pc = "parsed" =>
        LET want == ParseFirstCloseAfterOpen(sort_criteria)
        IN  /\ parsed.status = want.status
            /\ parsed.sort = want.sort

\* C10: every token that matches query_regex is parsed without error, with
\* direction the final (asc|desc) group and order_by the text before it.
C10_RegexSufficient ==
    (pc = "parsed" /\ query_regex(sort_criteria)) =>
        /\ parsed.status = "ok"
        /\ \E d \in Direction :
              LET tail == <<"(">> \o DirectionValue(d) \o <<")">>
              IN  /\ EndsWith(sort_criteria, tail)
                  /\ parsed.sort.direction = d
                  /\ parsed.sort.order_by =
                         SubSeq(sort_criteria, 1, Len(sort_criteria) - Len(tail))

----------------------------------------------------------------------------
(* Pageable: properties *)

\* C2: every Pageable that a construction entry point yields has size > 0
\* and page > 0 (size=0 or page=0 is refused and yields no descriptor).
C2_PositiveSizeAndPage ==
    pageable.status = "ok" => (pageable.size > 0 /\ pageable.page > 0)

Segment(c) == c.order_by \o <<"(">> \o DirectionValue(c.direction) \o <<")">>

\* "&sort=f(d)" for the first n criteria of the list, in list order
RECURSIVE AmpSortSegments(_, _)
AmpSortSegments(list, n) ==
    IF n = 0 THEN <<>>
    ELSE AmpSortSegments(list, n - 1) \o <<"&">> \o KeySort \o <<"=">> \o Segment(list[n])

\* "sort=f(d)&" for the first n criteria of the list, in list order
RECURSIVE SortAmpSegments(_, _)
SortAmpSegments(list, n) ==
    IF n = 0 THEN <<>>
    ELSE SortAmpSegments(list, n - 1) \o KeySort \o <<"=">> \o Segment(list[n]) \o <<"&">>

\* C4 (as stated): to_api_query returns "page=p&size=s" followed by one
\* "&sort=field(direction)" per criterion in list order.
C4_PageSizeThenSort ==
    (pc = "rendered" /\ pageable.page > 0 /\ pageable.size > 0) =>
        api_query = KeyPage \o <<"=">> \o IntToStr(pageable.page) \o <<"&">>
                    \o KeySize \o <<"=">> \o IntToStr(pageable.size)
                    \o AmpSortSegments(pageable.sort, Len(pageable.sort))

\* C4 (amended): to_api_query returns one "sort=field(direction)&" per
\* criterion in list order, followed by "size=s&page=p", with no trailing "&".
C4_SortThenSizePage ==
    pc = "rendered" =>
        api_query = SortAmpSegments(pageable.sort, Len(pageable.sort))
                    \o KeySize \o <<"=">> \o IntToStr(pageable.size) \o <<"&">>
                    \o KeyPage \o <<"=">> \o IntToStr(pageable.page)

C4_Witness ==
    /\ pc = "rendered"
    /\ Len(pageable.sort) = 2
    /\ pageable.sort[1] # pageable.sort[2]
    /\ pageable.size = DefaultSize
    /\ pageable.page = 2
    /\ api_query[Len(api_query)] # "&"

----------------------------------------------------------------------------
(* Validator: properties *)

Temporal == {"datetime", "date"}

\* C1: on a datetime or date field the validator maps None to None and does
\* not raise.
C1_NoneCoercesToNone ==
    (pc = "validated" /\ field_type \in Temporal /\ v = None) => ret = Return(None)

\* C6: on a datetime field a non-numeric string that is ISO-8601 yields the
\* offset-naive datetime it denotes (a datetime, not a number); a string that
\* does not conform raises.
C6_IsoStringYieldsInstant ==
    (pc = "validated" /\ field_type = "datetime" /\ v.type = "str" /\ ~Float(v).ok) =>
        LET p == FromIsoFormat(v.s)
        IN  IF p.ok
            THEN /\ ret.status = "return"
                 /\ ret.value.type = "datetime"
                 /\ ~ret.value.aware
                 /\ (~p.val.aware => ret.value = p.val)
            ELSE ret.status = "raise"

\* C7: a datetime given to a datetime field is returned with its tzinfo
\* removed and nothing else changed; a date given to a date field is returned
\* unchanged.
C7_CanonicalInputAccepted ==
    /\ (pc = "validated" /\ field_type = "datetime" /\ v.type = "datetime")
           => ret = Return(DatetimeV(v.n, v.frac, FALSE, 0))
    /\ (pc = "validated" /\ field_type = "date" /\ v.type = "date")
           => ret = Return(v)

\* C8: on a datetime field every input that is not None, a datetime, a number
\* or a string is rejected: the validator raises, it neither returns the
\* input unchanged nor converts it.
C8_OtherTypesRejected ==
    (/\ pc = "validated"
     /\ field_type = "datetime"
     /\ v.type \notin {"NoneType", "datetime", "int", "float", "str"}) =>
        ret.status = "raise"

NumericString == v.type = "str" /\ Float(v).ok

\* C9 (as stated): on a datetime field every numeric string is coerced
\* successfully to fromtimestamp(float(n)).
C9_NumericStringAlwaysSucceeds ==
    (pc = "validated" /\ field_type = "datetime" /\ NumericString) =>
        /\ ret.status = "return"
        /\ ret.value = FromTimestamp(Float(v).val).val

\* C9 (amended): on a datetime field a numeric string n is coerced to
\* fromtimestamp(float(n)) whenever that conversion is defined, and is
\* rejected with the "not valid" error when float(n) is nan, infinite or out
\* of the representable range; it is never read as ISO-8601 text.
C9_NumericStringIsTimestamp ==
    (pc = "validated" /\ field_type = "datetime" /\ NumericString) =>
        LET t == FromTimestamp(Float(v).val)
        IN  IF t.ok THEN ret = Return(t.val) ELSE ret = RaiseNotValid

C9_Witness ==
    /\ pc = "validated"
    /\ field_type = "datetime"
    /\ v = StrV(<<"1", ".", "5">>)
    /\ ret = Return(DatetimeV(1 + local_offset, 5, FALSE, 0))

====
